---- MODULE Spec2Model ----
(***************************************************************************)
(* The favourites subsystem of static/next-bus.js: the FavouritesManager   *)
(* class, the localStorage entry 'busStopFavourites' it loads and saves,   *)
(* the favourite cards and toggle controls it renders, and the navigation  *)
(* and htmx refresh requests its card handlers make.                       *)
(*                                                                         *)
(* One action is one event handler run to completion (the browser runs    *)
(* handlers one at a time).  Strings the script only passes around (stop   *)
(* ids, stop names, heading texts) are drawn from small sets; what the     *)
(* script or the browser computes from them (JSON text, property order,    *)
(* truthiness, HTML parsing of a template, String.replace/trim) is         *)
(* computed by the operators below.                                        *)
(*                                                                         *)
(* Seven specifications share the variables:                               *)
(*   Spec       the favourites handlers of a loaded page, every page       *)
(*              layout, stored item, stop name and heading;                *)
(*   PageSpec   the page from script load on: the two DOMContentLoaded     *)
(*              listeners, theme toggle, stop selection, form submit,      *)
(*              popstate, htmx:responseError and its timers, together      *)
(*              with the favourites handlers;                              *)
(*   TabsSpec   two tabs sharing localStorage;                             *)
(*   QuotaSpec  a localStorage whose setItem may throw;                    *)
(*   FragmentSpec  navigation interleaved with the arrival of bus-times    *)
(*              fragments requested earlier;                               *)
(*   WorkerSpec the service worker: install, activate, fetch;              *)
(*   ThemeSpec  the theme at page load, for every URL theme, stored theme  *)
(*              and system preference.                                     *)
(***************************************************************************)
EXTENDS Naturals, Sequences, FiniteSets

(***************************************************************************)
(* Bounds of the model.                                                    *)
(***************************************************************************)
\* history.pushState calls kept in `history`
MaxHistory == 2
\* htmx refresh requests in flight kept in `pending`
MaxPending == 2
\* setTimeout callbacks kept in `timers`
MaxTimers == 4

(***************************************************************************)
(* Input domains.                                                          *)
(***************************************************************************)
\* stop ids: a numeric one, and one with a character that is special in a URL
StopIds == {"5", "5&6"}
\* URLSearchParams.get('stop_id') when the URL carries none (null, falsy)
NoStop == ""
\* window.location.search: empty, or naming a stop; "?stop_id=5%266" is the
\* percent-encoded link to stop "5&6", "?stop_id=5&6" the same id unencoded
NoSearch == ""
LinkedSearches == {NoSearch, "?stop_id=5", "?stop_id=5%266"}

\* the template `?stop_id=${stopId}` (after location.pathname)
SearchOfTemplate(stopId) ==
    CASE stopId = "5" -> "?stop_id=5"
      [] stopId = "5&6" -> "?stop_id=5&6"
      [] OTHER -> NoSearch

\* new URLSearchParams(search).get('stop_id'): pairs are split at '&' and
\* percent-decoded
SearchParamsGetStopId(search) ==
    CASE search = "?stop_id=5" -> "5"
      [] search = "?stop_id=5%266" -> "5&6"
      [] search = "?stop_id=5&6" -> "5"
      [] OTHER -> NoStop
\* stop names: an empty one, a plain one, one carrying markup characters
Names == {"", "King St", "Main St <NB>"}
\* textContent of the '#bus-times h2' heading the server renders
HeadingTexts ==
    {"Upcoming Buses at ", "Upcoming Buses at King St", "Upcoming Buses at Main St <NB>"}
\* document.querySelector('#bus-times h2') finds nothing
NoHeading == "(no h2)"

\* place of an own key in property order: integer-like keys come first
PropertyRank(id) == CASE id = "5" -> 1 [] id = "5&6" -> 2 [] OTHER -> 0

\* heading.textContent.replace('Upcoming Buses at ', '').trim()
StopNameOfHeading(text) ==
    CASE text = "Upcoming Buses at " -> ""
      [] text = "Upcoming Buses at King St" -> "King St"
      [] text = "Upcoming Buses at Main St <NB>" -> "Main St <NB>"
      [] OTHER -> text

\* textContent of the <h3> the HTML parser builds from `<h3>${stopName}</h3>`:
\* '<NB>' opens an element and contributes no text
H3TextOfTemplate(stopName) ==
    CASE stopName = "Main St <NB>" -> "Main St "
      [] OTHER -> stopName

(***************************************************************************)
(* JavaScript objects and JSON text.                                       *)
(* A favourites object is a function from its own keys to their values.    *)
(* A localStorage item is null, or a string: the empty string, a text that *)
(* is not JSON, or the JSON text of an object, kept as its member list.    *)
(***************************************************************************)
EmptyObject == [k \in {} |-> ""]
Objects == UNION {[ks -> Names] : ks \in SUBSET StopIds}

NullItem == [kind |-> "null", members |-> <<>>]
EmptyString == [kind |-> "empty", members |-> <<>>]
NotJson == [kind |-> "malformed", members |-> <<>>]

\* own keys in property order
RECURSIVE KeysInOrder(_)
KeysInOrder(ks) ==
    IF ks = {} THEN <<>>
    ELSE LET m == CHOOSE k \in ks : \A j \in ks : PropertyRank(k) <= PropertyRank(j)
         IN  <<m>> \o KeysInOrder(ks \ {m})

ObjectKeys(obj) == KeysInOrder(DOMAIN obj)

ObjectEntries(obj) ==
    LET ks == ObjectKeys(obj) IN [i \in 1..Len(ks) |-> <<ks[i], obj[ks[i]]>>]

JSONStringify(obj) == [kind |-> "object", members |-> ObjectEntries(obj)]

\* JSON.parse of an object text: the last member of a key wins
JSONParse(text) ==
    LET ms == text.members
        ks == {ms[i][1] : i \in 1..Len(ms)}
    IN  [k \in ks |->
            LET w == CHOOSE i \in 1..Len(ms) :
                         /\ ms[i][1] = k
                         /\ \A j \in 1..Len(ms) : ms[j][1] = k => j <= i
            IN  ms[w][2]]

\* JSON.parse throws SyntaxError
JSONParseThrows(text) == text.kind = "malformed"

\* ToBoolean of a getItem result: null and '' are falsy
ItemTruthy(item) == item.kind \in {"malformed", "object"}

\* ToBoolean(obj[key]) for a key that names no member of Object.prototype:
\* undefined and '' are falsy
Truthy(obj, key) == key \in DOMAIN obj /\ obj[key] # ""

StoredItems == {NullItem, EmptyString, NotJson} \cup {JSONStringify(o) : o \in Objects}

(***************************************************************************)
(* The page: which of the elements the script looks up exist.              *)
(***************************************************************************)
FullPage ==
    [favouritesList |-> TRUE, favouritesSection |-> TRUE, stopNameInput |-> TRUE,
     stopIdInput |-> TRUE, autoRefresh |-> TRUE, themeToggle |-> TRUE,
     errorMessage |-> TRUE]
\* the full page, and the pages that lack one of the elements
Pages ==
    {FullPage,
     [FullPage EXCEPT !.favouritesList = FALSE],
     [FullPage EXCEPT !.favouritesSection = FALSE],
     [FullPage EXCEPT !.stopNameInput = FALSE],
     [FullPage EXCEPT !.stopIdInput = FALSE],
     [FullPage EXCEPT !.autoRefresh = FALSE]}

VARIABLES
    pc,              \* "loading": before `new FavouritesManager()`; "ready": constructed;
                     \* "failed": the constructor threw, window.favouritesManager unset
    page,            \* the elements of the document (fixed by the HTML)
    favourites,      \* this.favourites
    storage,         \* localStorage item 'busStopFavourites'
    cards,           \* children of #favourites-list, in document order
    sectionVisible,  \* #favourites-section style.display is not 'none'
    heading,         \* textContent of '#bus-times h2' as served, or NoHeading
    headerButtons,   \* .favourite-button children of '#bus-times h2'
    url,             \* window.location.search
    history,         \* the search of each entry pushed by history.pushState, oldest first
    stopIdInput,     \* value of the #stop_id input
    pending,         \* stop id sent by each htmx 'refresh' triggered and not yet answered
    lastEvent,       \* the handler that ran last, with its arguments
    prev,            \* favourites and storage before that handler ran
    loaded,          \* how many of the two DOMContentLoaded listeners have run down to
                     \* their htmx:responseError registration (lines 127 and 255)
    urlTheme,        \* the 'theme' parameter of the URL the page was opened with
    prefersDark,     \* matchMedia("(prefers-color-scheme: dark)").matches
    theme,           \* data-theme attribute of the document element
    themeItem,       \* localStorage item 'theme'
    icon,            \* which of #light-icon and #dark-icon is displayed
    listeners,       \* how many listeners the script has registered, per event
    landing,         \* the search of the history entry the page was opened with
    position,        \* index of the current history entry: 0 is the landing entry,
                     \* i > 0 is history[i]
    timers,          \* callbacks of the setTimeout(..., 5000) calls not yet run, in
                     \* the order they were scheduled
    errorText,       \* textContent of #error-message
    other,           \* a second tab of the same origin: its pc and this.favourites
    swState,         \* the service worker: "parsed", "installed", "activated", or
                     \* "redundant" when its install failed
    caches,          \* CacheStorage of the origin: the URLs held by each cache
    fetchedOk,       \* the requests the network has answered to a fetch event
    lastFetch        \* the last fetch event and what respondWith was given

vars ==
    <<pc, page, favourites, storage, cards, sectionVisible, heading, headerButtons,
      url, history, stopIdInput, pending, lastEvent, prev, loaded, urlTheme,
      prefersDark, theme, themeItem, icon, listeners, landing, position, timers,
      errorText, other, swState, caches, fetchedOk, lastFetch>>

\* the service worker's state
worker == <<swState, caches, fetchedOk, lastFetch>>

\* what the favourites handlers of this tab never touch
shell ==
    <<loaded, urlTheme, prefersDark, theme, themeItem, icon, listeners, landing, timers,
      errorText, other, worker>>

Event(op, stopId, stopName) == [op |-> op, stopId |-> stopId, stopName |-> stopName]

\* the last handler called toggleFavourite
Toggled == lastEvent.op \in {"cardToggle", "headerToggle"}

(***************************************************************************)
(* FavouritesManager, as pure functions of the state they read.            *)
(***************************************************************************)
\* loadFavourites: JSON.parse is reached only for a truthy item
LoadFavouritesThrows(stored) == ItemTruthy(stored) /\ JSONParseThrows(stored)

LoadFavourites(stored) == IF ItemTruthy(stored) THEN JSONParse(stored) ELSE EmptyObject

\* saveFavourites: the item written
SaveFavourites(obj) == JSONStringify(obj)

\* toggleFavourite, its first statement: delete or assign
ToggledFavourites(obj, stopId, stopName) ==
    IF Truthy(obj, stopId)
    THEN [k \in DOMAIN obj \ {stopId} |-> obj[k]]
    ELSE [k \in DOMAIN obj \cup {stopId} |-> IF k = stopId THEN stopName ELSE obj[k]]

\* a .favourite-button element
Button(stopId, active, title) == [dataStopId |-> stopId, active |-> active, title |-> title]

\* the card renderFavourites builds for one entry; stopId and stopName are the
\* values its click listener closes over
Card(stopId, stopName) ==
    [stopId |-> stopId, stopName |-> stopName, h3 |-> H3TextOfTemplate(stopName),
     button |-> Button(stopId, TRUE, "Remove from favourites")]

\* the cards appended by the forEach over Object.entries(this.favourites)
RenderedCards(obj) ==
    LET es == ObjectEntries(obj) IN [i \in 1..Len(es) |-> Card(es[i][1], es[i][2])]

\* renderFavourites showing the section for a non-empty set and never hiding it
RenderFavouritesNeverHiding(obj) ==
    IF ~page.favouritesList
    THEN [cards |-> cards, visible |-> sectionVisible]
    ELSE [cards |-> RenderedCards(obj),
          visible |-> IF page.favouritesSection /\ Len(ObjectKeys(obj)) # 0
                      THEN TRUE
                      ELSE sectionVisible]

\* renderFavourites setting the section's display before it looks for the list
RenderFavouritesSectionFirst(obj) ==
    [cards |-> IF page.favouritesList THEN RenderedCards(obj) ELSE cards,
     visible |-> IF page.favouritesSection THEN Len(ObjectKeys(obj)) # 0
                 ELSE sectionVisible]

\* renderFavourites: the list's children and the section's visibility afterwards
RenderFavourites(obj) ==
    IF ~page.favouritesList
    THEN [cards |-> cards, visible |-> sectionVisible]
    ELSE [cards |-> RenderedCards(obj),
          visible |-> IF page.favouritesSection
                      THEN Len(ObjectKeys(obj)) # 0
                      ELSE sectionVisible]

\* updateFavouriteButtons, on one element of querySelectorAll('.favourite-button')
UpdateFavouriteButton(b, obj) == [b EXCEPT !.active = Truthy(obj, b.dataStopId)]

UpdateFavouriteButtons(elems, obj) ==
    [i \in 1..Len(elems) |->
        [elems[i] EXCEPT !.button = UpdateFavouriteButton(elems[i].button, obj)]]

\* addFavouriteButtonToBusTimes without its look for an existing .favourite-button
AddFavouriteButtonUnguarded(h, btns) ==
    IF h = NoHeading THEN btns
    ELSE LET stopId == SearchParamsGetStopId(url) IN
    IF stopId = NoStop THEN btns
    ELSE Append(btns,
           [stopId |-> stopId, stopName |-> StopNameOfHeading(h),
            button |-> Button(stopId, Truthy(favourites, stopId),
                              IF Truthy(favourites, stopId)
                              THEN "Remove from favourites"
                              ELSE "Add to favourites")])

\* addFavouriteButtonToBusTimes: the heading's buttons afterwards, for heading
\* text h holding the buttons btns
AddFavouriteButtonToBusTimes(h, btns) ==
    IF h = NoHeading THEN btns
    ELSE LET stopId == SearchParamsGetStopId(url) IN
    IF stopId = NoStop THEN btns
    ELSE IF Len(cards) + Len(btns) = 0
         THEN Append(btns,
                [stopId |-> stopId, stopName |-> StopNameOfHeading(h),
                 button |-> Button(stopId, Truthy(favourites, stopId),
                                   IF Truthy(favourites, stopId)
                                   THEN "Remove from favourites"
                                   ELSE "Add to favourites")])
         ELSE btns

(***************************************************************************)
(* Theme, listeners and timers of the DOMContentLoaded listener.           *)
(***************************************************************************)
\* no theme: urlParams.get('theme') or getItem('theme') returning null, no
\* data-theme attribute
NoTheme == "(null)"
\* the empty theme of `?theme=`, or of an item stored as ''
EmptyTheme == ""
Themes == {"light", "dark"}

\* ToBoolean of a theme in `urlTheme || getItem('theme') || ...` and in
\* `!urlTheme`: null and '' are falsy
ThemeTruthy(t) == t \notin {NoTheme, EmptyTheme}

\* currentTheme with the stored theme taking precedence over the URL's
CurrentThemeStoredFirst(fromUrl, item, dark) ==
    IF ThemeTruthy(item) THEN item
    ELSE IF ThemeTruthy(fromUrl) THEN fromUrl
    ELSE IF dark THEN "dark" ELSE "light"

\* currentTheme: the URL's theme, else the stored one, else the system's
CurrentTheme(fromUrl, item, dark) ==
    IF ThemeTruthy(fromUrl) THEN fromUrl
    ELSE IF ThemeTruthy(item) THEN item
    ELSE IF dark THEN "dark" ELSE "light"

\* updateThemeIcon: the icon left displayed (both icon elements exist)
UpdateThemeIcon(t) == IF t = "dark" THEN "dark" ELSE "light"

\* the click listener of #theme-toggle: the data-theme it sets
ThemeClicked(t) == IF t = "light" THEN "dark" ELSE "light"

\* data-theme after n click listeners have run one after the other
RECURSIVE ThemeAfterListeners(_, _)
ThemeAfterListeners(t, n) ==
    IF n = 0 THEN t ELSE ThemeAfterListeners(ThemeClicked(t), n - 1)

NoListeners == [click |-> 0, submit |-> 0, selectcomplete |-> 0, popstate |-> 0,
                responseError |-> 0]

\* a listener that constructs the manager first: a throw of loadFavourites
\* leaves it before any registration
RegisteredAfterManager(ls, p) ==
    IF LoadFavouritesThrows(storage) THEN ls
    ELSE [click |-> ls.click + (IF p.themeToggle THEN 1 ELSE 0),
          submit |-> ls.submit + (IF p.stopNameInput /\ p.stopIdInput THEN 1 ELSE 0),
          selectcomplete |->
              ls.selectcomplete + (IF p.stopNameInput /\ p.stopIdInput THEN 1 ELSE 0),
          popstate |-> IF p.stopNameInput /\ p.stopIdInput THEN 1 ELSE ls.popstate,
          responseError |-> ls.responseError + 1]

\* the registrations of one run of the DOMContentLoaded listener; onpopstate is
\* a property, so that assigning it again replaces the handler
Registered(ls, p) ==
    LET inputs == p.stopNameInput /\ p.stopIdInput
    IN  [click |-> ls.click + (IF p.themeToggle THEN 1 ELSE 0),
         submit |-> ls.submit + (IF inputs THEN 1 ELSE 0),
         selectcomplete |-> ls.selectcomplete + (IF inputs THEN 1 ELSE 0),
         popstate |-> IF inputs THEN 1 ELSE ls.popstate,
         responseError |-> ls.responseError + 1]

\* the timers one htmx:responseError listener schedules
ErrorTimers(p) == IF p.errorMessage THEN <<"clear", "retry">> ELSE <<"retry">>

\* the timers n htmx:responseError listeners schedule, one listener after the other
RECURSIVE TimersOfListeners(_, _)
TimersOfListeners(p, n) ==
    IF n = 0 THEN <<>> ELSE ErrorTimers(p) \o TimersOfListeners(p, n - 1)

ErrorMessage == "Error fetching bus times. Retrying..."

\* the history entry at index i
Entry(i) == IF i = 0 THEN landing ELSE history[i]

\* history.pushState n times with the same URL: the entries after the current
\* one are dropped, then the new ones appended
RECURSIVE Pushed(_, _, _)
Pushed(entries, search, n) ==
    IF n = 0 THEN entries ELSE Pushed(Append(entries, search), search, n - 1)

\* a tab that is not open
NoTab == [pc |-> "closed", favourites |-> EmptyObject]

(***************************************************************************)
(* The service worker (service-worker.js) and the origin's CacheStorage.   *)
(* A CacheStorage is a function from the names of its caches to the set of *)
(* request URLs each cache holds a response for.                           *)
(***************************************************************************)
CACHE_NAME == "next-bus-time-cache-v1"
urlsToCache ==
    <<"/", "/static/styles.css", "/static/manifest.json",
      "/static/icons/icon-192x192.png", "/static/icons/icon-512x512.png">>
cacheWhitelist == {"next-bus-time-cache-v1"}

\* the URLs of a list
UrlsOf(urls) == {urls[i] : i \in 1..Len(urls)}

NoCaches == [n \in {} |-> {}]

\* caches.open(name): the cache is created when there is none of that name
CachesOpen(cs, name) ==
    IF name \in DOMAIN cs THEN cs
    ELSE [n \in DOMAIN cs \cup {name} |-> IF n = name THEN {} ELSE cs[n]]

\* cache.addAll(urls) once every URL has been fetched
CacheAddAll(cs, name, urls) == [cs EXCEPT ![name] = @ \cup UrlsOf(urls)]

\* caches.match(request) finds a response in one of the caches
CachesMatch(cs, request) == \E n \in DOMAIN cs : request \in cs[n]

\* the activate listener deleting every cache, the listed one too
CachesDeleteAll(cs, whitelist) == NoCaches

\* the activate listener: caches.delete of every name not in the whitelist
CachesDeleteUnlisted(cs, whitelist) == [n \in DOMAIN cs \cap whitelist |-> cs[n]]

\* no fetch event yet
NoFetch == [request |-> "", networkOk |-> TRUE, answer |-> "none"]

\* the worker's script has been evaluated and no event dispatched to it; the
\* origin holds no cache
WorkerParsed ==
    /\ swState = "parsed"
    /\ caches = NoCaches
    /\ fetchedOk = {}
    /\ lastFetch = NoFetch

(***************************************************************************)
(* The state when the DOMContentLoaded listener reaches its last           *)
(* statement, `new FavouritesManager()`: the URL check above it has set    *)
(* the stop id input and triggered a refresh, once per registered copy of  *)
(* the listener.                                                           *)
(***************************************************************************)
InitDocument ==
    /\ pc = "loading"
    /\ page \in Pages
    /\ favourites = EmptyObject
    /\ storage \in StoredItems
    /\ cards = <<>>
    /\ sectionVisible \in BOOLEAN
    /\ heading \in HeadingTexts \cup {NoHeading}
    /\ headerButtons = <<>>
    /\ url \in LinkedSearches
    /\ history = <<>>
    /\ LET stopId == SearchParamsGetStopId(url)
           inputs == page.stopNameInput /\ page.stopIdInput
       IN  /\ stopIdInput = IF stopId # NoStop /\ inputs THEN stopId ELSE NoStop
           /\ pending = IF stopId # NoStop /\ inputs /\ page.autoRefresh
                        THEN <<stopId, stopId>> ELSE <<>>
    /\ lastEvent = Event("none", NoStop, "")
    /\ prev = [favourites |-> EmptyObject, storage |-> storage]
    /\ loaded = 2
    /\ urlTheme = NoTheme
    /\ prefersDark = FALSE
    /\ theme = "light"
    /\ themeItem = "light"
    /\ icon = "light"
    /\ listeners = Registered(Registered(NoListeners, page), page)
    /\ landing = url
    /\ position = 0
    /\ timers = <<>>
    /\ errorText = ""
    /\ other = NoTab

\* the same, with the service worker not yet installed
Init == InitDocument /\ WorkerParsed

(***************************************************************************)
(* Handlers.                                                               *)
(***************************************************************************)
\* `window.favouritesManager = new FavouritesManager()`: loadFavourites,
\* initializeEventListeners, renderFavourites; an exception of loadFavourites
\* leaves the constructor before the listener is registered
NewFavouritesManager ==
    /\ pc = "loading"
    /\ loaded = 2
    /\ lastEvent' = Event("construct", NoStop, "")
    /\ prev' = [favourites |-> favourites, storage |-> storage]
    /\ IF LoadFavouritesThrows(storage)
       THEN /\ pc' = "failed"
            /\ UNCHANGED <<favourites, cards, sectionVisible>>
       ELSE LET obj == LoadFavourites(storage)
                r == RenderFavourites(obj)
            IN  /\ pc' = "ready"
                /\ favourites' = obj
                /\ cards' = r.cards
                /\ sectionVisible' = r.visible
    /\ UNCHANGED <<page, storage, heading, headerButtons, url, history, stopIdInput,
                   pending, position, shell>>

\* toggleFavourite calling saveFavourites before it mutates the set
ToggleFavouriteSavingFirst(stopId, stopName) ==
    LET obj == ToggledFavourites(favourites, stopId, stopName)
        r == RenderFavourites(obj)
    IN  /\ favourites' = obj
        /\ storage' = SaveFavourites(favourites)
        /\ cards' = UpdateFavouriteButtons(r.cards, obj)
        /\ sectionVisible' = r.visible
        /\ headerButtons' = UpdateFavouriteButtons(headerButtons, obj)
        /\ UNCHANGED <<pc, page, heading, url, history, stopIdInput, pending, position,
                       shell>>

\* toggleFavourite applying the toggle to the stored copy and writing that back
ToggleFavouriteMerging(stopId, stopName) ==
    LET obj == ToggledFavourites(favourites, stopId, stopName)
        r == RenderFavourites(obj)
    IN  /\ favourites' = obj
        /\ storage' = SaveFavourites(ToggledFavourites(LoadFavourites(storage), stopId,
                                                       stopName))
        /\ cards' = UpdateFavouriteButtons(r.cards, obj)
        /\ sectionVisible' = r.visible
        /\ headerButtons' = UpdateFavouriteButtons(headerButtons, obj)
        /\ UNCHANGED <<pc, page, heading, url, history, stopIdInput, pending, position,
                       shell>>

\* toggleFavourite(stopId, stopName): mutate, saveFavourites, renderFavourites,
\* updateFavouriteButtons
ToggleFavourite(stopId, stopName) ==
    LET obj == ToggledFavourites(favourites, stopId, stopName)
        r == RenderFavourites(obj)
    IN  /\ favourites' = obj
        /\ storage' = SaveFavourites(obj)
        /\ cards' = UpdateFavouriteButtons(r.cards, obj)
        /\ sectionVisible' = r.visible
        /\ headerButtons' = UpdateFavouriteButtons(headerButtons, obj)
        /\ UNCHANGED <<pc, page, heading, url, history, stopIdInput, pending, position,
                       shell>>

\* the click listener of card i, for a click inside its .favourite-button
CardButtonClick(i) ==
    /\ pc = "ready"
    /\ i \in 1..Len(cards)
    /\ ToggleFavourite(cards[i].stopId, cards[i].stopName)
    /\ lastEvent' = Event("cardToggle", cards[i].stopId, cards[i].stopName)
    /\ prev' = [favourites |-> favourites, storage |-> storage]

\* the click listener of card i toggling on every click, wherever on the card
CardActivateToggling(i) ==
    /\ pc = "ready"
    /\ i \in 1..Len(cards)
    /\ ToggleFavourite(cards[i].stopId, cards[i].stopName)
    /\ lastEvent' = Event("activate", cards[i].stopId, cards[i].stopName)
    /\ prev' = [favourites |-> favourites, storage |-> storage]

\* the click listener of card i, for a click elsewhere on the card
CardActivate(i) ==
    /\ pc = "ready"
    /\ i \in 1..Len(cards)
    /\ position < MaxHistory
    /\ LET stopId == cards[i].stopId
           triggers == page.stopIdInput /\ page.autoRefresh
       IN  /\ triggers => Len(pending) < MaxPending
           /\ url' = SearchOfTemplate(stopId)
           /\ history' = Pushed(SubSeq(history, 1, position), SearchOfTemplate(stopId), 1)
           /\ position' = position + 1
           /\ stopIdInput' = IF page.stopIdInput THEN stopId ELSE stopIdInput
           /\ pending' = IF triggers THEN Append(pending, stopIdInput') ELSE pending
           /\ lastEvent' = Event("activate", stopId, cards[i].stopName)
    /\ prev' = [favourites |-> favourites, storage |-> storage]
    /\ UNCHANGED <<pc, page, favourites, storage, cards, sectionVisible, heading,
                   headerButtons, shell>>

\* the click listener of the heading's button i
HeaderButtonClick(i) ==
    /\ pc = "ready"
    /\ i \in 1..Len(headerButtons)
    /\ ToggleFavourite(headerButtons[i].stopId, headerButtons[i].stopName)
    /\ lastEvent' = Event("headerToggle", headerButtons[i].stopId, headerButtons[i].stopName)
    /\ prev' = [favourites |-> favourites, storage |-> storage]

\* htmx swaps a response into its target and raises htmx:afterSwap on the body.
\* A swap into #bus-times either replaces the heading (h is the new one, served
\* without buttons) or, for an appending swap style, keeps it; answered: the
\* response is that of the oldest pending refresh rather than of htmx's own
\* polling.  The listener exists once the constructor has registered it.
HtmxAfterSwap(targetId, replaced, h, answered) ==
    /\ pc # "loading"
    /\ answered => pending # <<>>
    /\ LET inBusTimes == targetId = "bus-times"
           h1 == IF inBusTimes /\ replaced THEN h ELSE heading
           b1 == IF inBusTimes /\ replaced THEN <<>> ELSE headerButtons
       IN  /\ heading' = h1
           /\ headerButtons' =
                IF pc = "ready" /\ inBusTimes
                THEN AddFavouriteButtonToBusTimes(h1, b1)
                ELSE b1
    /\ pending' = IF answered THEN Tail(pending) ELSE pending
    /\ lastEvent' =
         Event(IF targetId # "bus-times" THEN "afterSwapOther"
               ELSE IF replaced THEN "afterSwap" ELSE "afterSwapKept", NoStop, "")
    /\ prev' = [favourites |-> favourites, storage |-> storage]
    /\ UNCHANGED <<pc, page, favourites, storage, cards, sectionVisible, url, history,
                   stopIdInput, position, shell>>

Next ==
    \/ NewFavouritesManager
    \/ \E i \in 1..Len(cards) : CardButtonClick(i)
    \/ \E i \in 1..Len(cards) : CardActivate(i)
    \/ \E i \in 1..Len(headerButtons) : HeaderButtonClick(i)
    \/ \E h \in HeadingTexts \cup {NoHeading}, answered \in BOOLEAN :
          HtmxAfterSwap("bus-times", TRUE, h, answered)
    \/ \E answered \in BOOLEAN : HtmxAfterSwap("bus-times", FALSE, heading, answered)
    \/ HtmxAfterSwap("other", FALSE, heading, FALSE)

Spec == Init /\ [][Next]_vars

(***************************************************************************)
(* The page from the moment the script is loaded: the two DOMContentLoaded *)
(* listeners and the handlers they register.                               *)
(***************************************************************************)
\* one DOMContentLoaded listener, lines 2-127 and again 130-255: theme, the
\* registrations, the URL check.  The second one goes on to
\* `new FavouritesManager()`, which is NewFavouritesManager.
DOMContentLoaded ==
    /\ pc = "loading"
    /\ loaded < 2
    /\ LET currentTheme == CurrentTheme(urlTheme, themeItem, prefersDark)
           stopId == SearchParamsGetStopId(url)
           inputs == page.stopNameInput /\ page.stopIdInput
       IN  /\ themeItem' = IF ~ThemeTruthy(urlTheme) THEN currentTheme ELSE themeItem
           /\ theme' = currentTheme
           /\ icon' = UpdateThemeIcon(currentTheme)
           /\ listeners' = Registered(listeners, page)
           /\ stopIdInput' = IF inputs /\ stopId # NoStop THEN stopId ELSE stopIdInput
           /\ pending' = IF inputs /\ stopId # NoStop /\ page.autoRefresh
                         THEN Append(pending, stopId) ELSE pending
    /\ loaded' = loaded + 1
    /\ lastEvent' = Event("load", NoStop, "")
    /\ prev' = [favourites |-> favourites, storage |-> storage]
    /\ UNCHANGED <<pc, page, favourites, storage, cards, sectionVisible, heading,
                   headerButtons, url, history, urlTheme, prefersDark, landing, position,
                   timers, errorText, other, worker>>

\* a click on #theme-toggle: every registered click listener runs
ThemeToggleClick ==
    /\ pc # "loading"
    /\ page.themeToggle
    /\ LET t == ThemeAfterListeners(theme, listeners.click)
       IN  /\ theme' = t
           /\ themeItem' = IF listeners.click > 0 THEN t ELSE themeItem
           /\ icon' = IF listeners.click > 0 THEN UpdateThemeIcon(t) ELSE icon
    /\ lastEvent' = Event("themeClick", NoStop, "")
    /\ prev' = [favourites |-> favourites, storage |-> storage]
    /\ UNCHANGED <<pc, page, favourites, storage, cards, sectionVisible, heading,
                   headerButtons, url, history, stopIdInput, pending, loaded, urlTheme,
                   prefersDark, listeners, landing, position, timers, errorText, other,
                   worker>>

\* awesomplete-selectcomplete on #stop_name: the suggestion's stop id goes into
\* the #stop_id input
SelectComplete(stopId) ==
    /\ pc # "loading"
    /\ listeners.selectcomplete > 0
    /\ stopIdInput' = stopId
    /\ lastEvent' = Event("selectcomplete", stopId, "")
    /\ prev' = [favourites |-> favourites, storage |-> storage]
    /\ UNCHANGED <<pc, page, favourites, storage, cards, sectionVisible, heading,
                   headerButtons, url, history, pending, position, shell>>

\* submit of the form: every registered submit listener runs
FormSubmit ==
    /\ pc # "loading"
    /\ LET stopId == stopIdInput
           pushes == IF stopId # NoStop THEN listeners.submit ELSE 0
       IN  /\ position + pushes <= MaxHistory
           /\ history' = Pushed(SubSeq(history, 1, position), SearchOfTemplate(stopId),
                                pushes)
           /\ position' = position + pushes
           /\ url' = IF pushes > 0 THEN SearchOfTemplate(stopId) ELSE url
           /\ lastEvent' = Event("submit", stopId, "")
    /\ prev' = [favourites |-> favourites, storage |-> storage]
    /\ UNCHANGED <<pc, page, favourites, storage, cards, sectionVisible, heading,
                   headerButtons, stopIdInput, pending, shell>>

\* Back or Forward to the history entry at index target, then window.onpopstate
PopState(target) ==
    /\ pc # "loading"
    /\ target \in 0..Len(history)
    /\ target # position
    /\ LET stopId == SearchParamsGetStopId(Entry(target))
           handled == listeners.popstate = 1 /\ stopId # NoStop
           triggers == handled /\ page.autoRefresh
       IN  /\ triggers => Len(pending) < MaxPending
           /\ url' = Entry(target)
           /\ position' = target
           /\ stopIdInput' = IF handled THEN stopId ELSE stopIdInput
           /\ pending' = IF triggers THEN Append(pending, stopId) ELSE pending
           /\ lastEvent' = Event("popstate", stopId, "")
    /\ prev' = [favourites |-> favourites, storage |-> storage]
    /\ UNCHANGED <<pc, page, favourites, storage, cards, sectionVisible, heading,
                   headerButtons, history, shell>>

\* htmx:responseError on the body: every registered listener runs.  answered:
\* the failed request is the oldest pending refresh rather than htmx's own
\* polling.
HtmxResponseError(answered) ==
    /\ pc # "loading"
    /\ answered => pending # <<>>
    /\ Len(timers) + Len(TimersOfListeners(page, listeners.responseError)) <= MaxTimers
    /\ timers' = timers \o TimersOfListeners(page, listeners.responseError)
    /\ errorText' = IF page.errorMessage /\ listeners.responseError > 0
                    THEN ErrorMessage ELSE errorText
    /\ pending' = IF answered THEN Tail(pending) ELSE pending
    /\ lastEvent' = Event("responseError", NoStop, "")
    /\ prev' = [favourites |-> favourites, storage |-> storage]
    /\ UNCHANGED <<pc, page, favourites, storage, cards, sectionVisible, heading,
                   headerButtons, url, history, stopIdInput, loaded, urlTheme, prefersDark,
                   theme, themeItem, icon, listeners, landing, position, other,
                   worker>>

\* the oldest setTimeout callback runs: it clears the message, or triggers
\* 'refresh' on #auto-refresh
TimerFires ==
    /\ timers # <<>>
    /\ LET retry == Head(timers) = "retry" /\ page.autoRefresh
       IN  /\ retry => Len(pending) < MaxPending
           /\ pending' = IF retry THEN Append(pending, stopIdInput) ELSE pending
    /\ errorText' = IF Head(timers) = "clear" THEN "" ELSE errorText
    /\ timers' = Tail(timers)
    /\ lastEvent' = Event(IF Head(timers) = "clear" THEN "timerClear" ELSE "timerRetry",
                          NoStop, "")
    /\ prev' = [favourites |-> favourites, storage |-> storage]
    /\ UNCHANGED <<pc, page, favourites, storage, cards, sectionVisible, heading,
                   headerButtons, url, history, stopIdInput, loaded, urlTheme, prefersDark,
                   theme, themeItem, icon, listeners, landing, position, other,
                   worker>>

\* the pages of PageSpec: the full one, and one lacking the elements the
\* DOMContentLoaded listener guards its registrations with
ScriptPages ==
    {FullPage,
     [FullPage EXCEPT !.themeToggle = FALSE, !.errorMessage = FALSE,
                      !.stopNameInput = FALSE]}

\* the stored favourites of PageSpec: a malformed item, one stop
ScriptItems == {NotJson, JSONStringify([k \in {"5&6"} |-> "King St"])}

\* the URL's theme, the stored theme and the system's preference for dark: a
\* link naming another theme than the stored one
ThemeSettings == {<<"light", "dark", FALSE>>}

\* the state when the script has been evaluated and DOMContentLoaded not yet
\* dispatched, for given pages, stored favourites, URLs and theme settings
InitScript(pages, items, searches, settings) ==
    /\ pc = "loading"
    /\ loaded = 0
    /\ page \in pages
    /\ favourites = EmptyObject
    /\ storage \in items
    /\ cards = <<>>
    /\ sectionVisible = TRUE
    /\ heading = NoHeading
    /\ headerButtons = <<>>
    /\ url \in searches
    /\ landing = url
    /\ history = <<>>
    /\ position = 0
    /\ stopIdInput = NoStop
    /\ pending = <<>>
    /\ \E setting \in settings :
          /\ urlTheme = setting[1]
          /\ themeItem = setting[2]
          /\ prefersDark = setting[3]
    /\ theme = NoTheme
    /\ icon = "light"
    /\ listeners = NoListeners
    /\ timers = <<>>
    /\ errorText = ""
    /\ other = NoTab
    /\ WorkerParsed
    /\ lastEvent = Event("none", NoStop, "")
    /\ prev = [favourites |-> EmptyObject, storage |-> storage]

InitPage == InitScript(ScriptPages, ScriptItems, {NoSearch, "?stop_id=5%266"}, ThemeSettings)

NextPage ==
    \/ DOMContentLoaded
    \/ NewFavouritesManager
    \/ \E i \in 1..Len(cards) : CardButtonClick(i)
    \/ \E i \in 1..Len(cards) : CardActivate(i)
    \/ \E i \in 1..Len(headerButtons) : HeaderButtonClick(i)
    \/ \E answered \in BOOLEAN :
          HtmxAfterSwap("bus-times", TRUE, "Upcoming Buses at King St", answered)
    \/ ThemeToggleClick
    \/ \E stopId \in StopIds : SelectComplete(stopId)
    \/ FormSubmit
    \/ \E target \in 0..Len(history) : PopState(target)
    \/ \E answered \in BOOLEAN : HtmxResponseError(answered)
    \/ TimerFires

PageSpec == InitPage /\ [][NextPage]_vars

(***************************************************************************)
(* The store: toggleFavourite, saveFavourites, loadFavourites.             *)
(***************************************************************************)
\* the set with the entry of stopId removed
Without(obj, stopId) == [k \in DOMAIN obj \ {stopId} |-> obj[k]]
\* the set with stopId -> stopName inserted
With(obj, stopId, stopName) ==
    [k \in DOMAIN obj \cup {stopId} |-> IF k = stopId THEN stopName ELSE obj[k]]

\* C1: one toggleFavourite(stop_id, stop_name) removes the entry of stop_id if
\* stop_id is present in the set and otherwise inserts stop_id -> stop_name,
\* leaving every other entry unchanged (for every name, the empty one included).
C1_ToggleRemovesPresentInsertsAbsent ==
    Toggled =>
        favourites =
            IF lastEvent.stopId \in DOMAIN prev.favourites
            THEN Without(prev.favourites, lastEvent.stopId)
            ELSE With(prev.favourites, lastEvent.stopId, lastEvent.stopName)

\* C2: two consecutive toggleFavourite calls with the same (stop_id, stop_name)
\* restore the in-memory set and the persisted set that held before the first.
C2_ToggleTwiceRestores ==
    [][(/\ Toggled
        /\ lastEvent'.op \in {"cardToggle", "headerToggle"}
        /\ lastEvent'.stopId = lastEvent.stopId
        /\ lastEvent'.stopName = lastEvent.stopName)
       => (/\ favourites' = prev.favourites
           /\ LoadFavourites(storage') = LoadFavourites(prev.storage))]_vars

\* C3: once the manager is constructed, the persisted set equals the in-memory
\* set between handlers, and from the first toggle on the item is the JSON text
\* of the whole in-memory set.
C3_PersistedIsWholeSet ==
    pc = "ready" =>
        /\ LoadFavourites(storage) = favourites
        /\ Toggled => storage = JSONStringify(favourites)

\* a toggle has rewritten an item that holds two entries
C3_Witness ==
    /\ pc = "ready"
    /\ Toggled
    /\ Len(storage.members) = 2
    /\ favourites # prev.favourites

\* C4: for an item that is absent or is no well-formed object text, construction
\* completes, with the empty set.
C4_LoadFailsOpen ==
    (lastEvent.op = "construct" /\ prev.storage.kind \in {"null", "empty", "malformed"})
        => (pc = "ready" /\ favourites = EmptyObject)

(***************************************************************************)
(* The binder: addFavouriteButtonToBusTimes on htmx:afterSwap.             *)
(***************************************************************************)
\* the listener has just run the binder on a swap into #bus-times
BinderRan == pc = "ready" /\ lastEvent.op \in {"afterSwap", "afterSwapKept"}

\* C5: after the binder has run with a stop_id in the URL and a heading present,
\* the heading holds exactly one toggle control, whatever the favourites set.
C5_OneHeaderControlAfterBinding ==
    (BinderRan /\ SearchParamsGetStopId(url) # NoStop /\ heading # NoHeading)
        => Len(headerButtons) = 1

\* C6: the heading never holds two toggle controls, and a binder run that
\* directly follows a binder run on the same heading changes no control.
C6_BinderIdempotent ==
    /\ [](Len(headerButtons) <= 1)
    /\ [][(BinderRan /\ lastEvent'.op = "afterSwapKept")
          => headerButtons' = headerButtons]_vars
    /\ [](pc = "ready" =>
            AddFavouriteButtonToBusTimes(heading,
                AddFavouriteButtonToBusTimes(heading, headerButtons))
            = AddFavouriteButtonToBusTimes(heading, headerButtons))

\* the binder has run twice in a row on a heading that holds its one control
C6_Witness ==
    /\ BinderRan
    /\ lastEvent.op = "afterSwapKept"
    /\ Len(headerButtons) = 1
    /\ heading # NoHeading
    /\ SearchParamsGetStopId(url) # NoStop

(***************************************************************************)
(* The renderer: renderFavourites.                                         *)
(***************************************************************************)
SectionShowsNonEmpty == sectionVisible <=> favourites # EmptyObject

\* C7 as stated: with the favourites section element present, the section is
\* visible iff the set is non-empty, after page load and after any toggles.
C7_VisibleIffNonEmpty ==
    (pc = "ready" /\ page.favouritesSection) => SectionShowsNonEmpty

\* C7 amended: the same, with the favourites list element present as well.
C7_VisibleIffNonEmptyWithList ==
    (pc = "ready" /\ page.favouritesSection /\ page.favouritesList)
        => SectionShowsNonEmpty

\* a toggle has emptied the set and hidden a section that was shown
C7_Witness ==
    /\ pc = "ready" /\ page.favouritesSection /\ page.favouritesList
    /\ Toggled
    /\ prev.favourites # EmptyObject
    /\ favourites = EmptyObject
    /\ ~sectionVisible

\* C8: after page load and after every toggle the list holds exactly one card
\* per entry of the set and no other, each showing the stored name of its stop.
C8_OneCardPerEntryShowingName ==
    (pc = "ready" /\ page.favouritesList) =>
        /\ Len(cards) = Cardinality(DOMAIN favourites)
        /\ \A k \in DOMAIN favourites : \E i \in 1..Len(cards) : cards[i].stopId = k
        /\ \A i \in 1..Len(cards) :
              /\ cards[i].stopId \in DOMAIN favourites
              /\ cards[i].h3 = favourites[cards[i].stopId]

\* C9: a toggle control in the heading is marked active iff its stop_id is in
\* the favourites set, right after binding and after every later toggle.
C9_HeaderActiveIffFavourite ==
    pc = "ready" =>
        \A i \in 1..Len(headerButtons) :
            headerButtons[i].button.active
                <=> headerButtons[i].button.dataStopId \in DOMAIN favourites

\* what C10 says of a click on a card's toggle control: it toggles the stop and
\* neither pushes a history entry nor requests a refresh
CardToggleOnlyToggles ==
    lastEvent'.op = "cardToggle" =>
        /\ favourites' = ToggledFavourites(favourites, lastEvent'.stopId, lastEvent'.stopName)
        /\ UNCHANGED <<url, history, stopIdInput, pending>>

\* what C10 says of the history: one entry is pushed, it is the current one, and
\* its stop_id query parameter is the card's stop_id
ActivationPushesOne ==
    lastEvent'.op = "activate" =>
        /\ Len(history') = Len(history) + 1
        /\ SubSeq(history', 1, Len(history)) = history
        /\ url' = history'[Len(history')]
        /\ SearchParamsGetStopId(history'[Len(history')]) = lastEvent'.stopId

\* what C10 says of the refresh: one is requested, for the card's stop
ActivationRequestsRefresh ==
    lastEvent'.op = "activate" =>
        /\ stopIdInput' = lastEvent'.stopId
        /\ pending' = Append(pending, lastEvent'.stopId)

\* C10, read for a page that has the stop id input and the auto-refresh
\* element: activating a card outside its toggle control pushes one history
\* entry whose stop_id query parameter is the card's stop_id and requests a
\* refresh for that stop; a click on the card's toggle control toggles the stop
\* and does neither.
C10_ActivationNavigatesAndRefreshes ==
    [][(page.stopIdInput /\ page.autoRefresh) =>
          /\ ActivationPushesOne
          /\ ActivationRequestsRefresh
          /\ CardToggleOnlyToggles]_vars

(***************************************************************************)
(* Absent elements.                                                        *)
(***************************************************************************)
\* the steps in which renderFavourites runs
Rendered == lastEvent'.op \in {"construct", "cardToggle", "headerToggle"} /\ pc' = "ready"
\* the steps in which addFavouriteButtonToBusTimes runs
Bound == lastEvent'.op \in {"afterSwap", "afterSwapKept"} /\ pc = "ready"
\* the step's toggleFavourite has mutated the set and persisted it
MutatedAndPersisted ==
    /\ favourites' = ToggledFavourites(favourites, lastEvent'.stopId, lastEvent'.stopName)
    /\ storage' = SaveFavourites(favourites')

\* C13, as stated: when the favourites list, the favourites section or the
\* bus-times heading is absent, renderFavourites and
\* addFavouriteButtonToBusTimes change nothing on the page, while
\* toggleFavourite still mutates and persists the set.
C13_AbsentElementNoOp ==
    [][/\ (~page.favouritesList \/ ~page.favouritesSection) /\ Rendered =>
             cards' = cards /\ sectionVisible' = sectionVisible
       /\ heading' = NoHeading /\ Bound => headerButtons' = <<>>
       /\ (~page.favouritesList \/ ~page.favouritesSection \/ heading = NoHeading)
          /\ lastEvent'.op \in {"cardToggle", "headerToggle"} => MutatedAndPersisted]_vars

\* C13, amended: without the list renderFavourites changes neither the cards
\* nor the section; without the section only it leaves the section's
\* visibility alone (the cards are rebuilt); without the heading
\* addFavouriteButtonToBusTimes adds no control; toggleFavourite still
\* mutates and persists the set.
C13_AbsentElementGuarded ==
    [][/\ ~page.favouritesList /\ Rendered =>
             cards' = cards /\ sectionVisible' = sectionVisible
       /\ ~page.favouritesSection /\ Rendered => sectionVisible' = sectionVisible
       /\ heading' = NoHeading /\ Bound => headerButtons' = <<>>
       /\ (~page.favouritesList \/ ~page.favouritesSection \/ heading = NoHeading)
          /\ lastEvent'.op \in {"cardToggle", "headerToggle"} => MutatedAndPersisted]_vars

\* a toggle from the heading has added a stop on a page without the list: the
\* set and the item hold it and no card shows it
C13_Witness ==
    /\ ~page.favouritesList
    /\ lastEvent.op = "headerToggle"
    /\ lastEvent.stopId \in DOMAIN favourites
    /\ lastEvent.stopId \notin DOMAIN prev.favourites
    /\ storage = SaveFavourites(favourites)
    /\ cards = <<>>

(***************************************************************************)
(* Two tabs of the same origin.  localStorage is shared; each tab has its  *)
(* own FavouritesManager, and the script listens to no 'storage' event.    *)
(* The second tab is kept as its manager only: its pc and this.favourites. *)
(***************************************************************************)
\* the second tab is opened: its constructor loads the stored set
OtherTabLoads ==
    /\ other.pc = "closed"
    /\ other' = IF LoadFavouritesThrows(storage)
                THEN [pc |-> "failed", favourites |-> EmptyObject]
                ELSE [pc |-> "ready", favourites |-> LoadFavourites(storage)]
    /\ lastEvent' = Event("otherLoad", NoStop, "")
    /\ prev' = [favourites |-> favourites, storage |-> storage]
    /\ UNCHANGED <<pc, page, favourites, storage, cards, sectionVisible, heading,
                   headerButtons, url, history, stopIdInput, pending, loaded, urlTheme,
                   prefersDark, theme, themeItem, icon, listeners, landing, position,
                   timers, errorText, worker>>

\* toggleFavourite(stopId, stopName) in the second tab, from one of its toggle
\* controls: it mutates its own set and writes it
OtherTabToggles(stopId, stopName) ==
    /\ other.pc = "ready"
    /\ LET obj == ToggledFavourites(other.favourites, stopId, stopName)
       IN  /\ other' = [other EXCEPT !.favourites = obj]
           /\ storage' = SaveFavourites(obj)
    /\ lastEvent' = Event("otherToggle", stopId, stopName)
    /\ prev' = [favourites |-> favourites, storage |-> storage]
    /\ UNCHANGED <<pc, page, favourites, cards, sectionVisible, heading, headerButtons,
                   url, history, stopIdInput, pending, loaded, urlTheme, prefersDark,
                   theme, themeItem, icon, listeners, landing, position, timers,
                   errorText, worker>>

\* the stored favourites of TabsSpec: none, a malformed item, one stop
TabsItems == {NullItem, NotJson, JSONStringify([k \in {"5"} |-> "King St"])}

\* the first tab about to construct its manager, the second not yet open
InitTabs ==
    /\ Init
    /\ page = FullPage
    /\ storage \in TabsItems
    /\ sectionVisible
    /\ heading = "Upcoming Buses at Main St <NB>"
    /\ url \in {NoSearch, "?stop_id=5%266"}

NextTabs ==
    \/ NewFavouritesManager
    \/ \E i \in 1..Len(cards) : CardButtonClick(i)
    \/ \E i \in 1..Len(cards) : CardActivate(i)
    \/ \E i \in 1..Len(headerButtons) : HeaderButtonClick(i)
    \/ \E answered \in BOOLEAN : HtmxAfterSwap("bus-times", TRUE, heading, answered)
    \/ OtherTabLoads
    \/ \E stopId \in StopIds, stopName \in Names : OtherTabToggles(stopId, stopName)

TabsSpec == InitTabs /\ [][NextTabs]_vars

\* C12: with two tabs that each loaded the set once and toggle independently,
\* the persisted set is always the whole in-memory set of the tab that toggled
\* last: a toggle of either tab writes the JSON text of that tab's set, and
\* nothing else writes the item.
C12_LastWriterWins ==
    [][/\ lastEvent'.op \in {"cardToggle", "headerToggle"} =>
             storage' = SaveFavourites(favourites')
       /\ lastEvent'.op = "otherToggle" => storage' = SaveFavourites(other'.favourites)
       /\ storage' # storage =>
             lastEvent'.op \in {"cardToggle", "headerToggle", "otherToggle"}]_vars

\* the second tab has just overwritten what the first tab wrote, and the two
\* in-memory sets differ
C12_Witness ==
    /\ lastEvent.op = "otherToggle"
    /\ other.favourites # favourites
    /\ prev.storage = SaveFavourites(favourites)
    /\ storage = SaveFavourites(other.favourites)
    /\ storage # prev.storage
    /\ favourites # EmptyObject

(***************************************************************************)
(* A storage that refuses writes: localStorage.setItem throws              *)
(* QuotaExceededError.  saveFavourites has no try, so toggleFavourite is   *)
(* left at its second statement, after the set has been mutated.           *)
(***************************************************************************)
\* toggleFavourite(stopId, stopName) whose saveFavourites throws
ToggleFavouriteThrowing(stopId, stopName) ==
    /\ favourites' = ToggledFavourites(favourites, stopId, stopName)
    /\ UNCHANGED <<pc, page, storage, cards, sectionVisible, heading, headerButtons, url,
                   history, stopIdInput, pending, position, shell>>

\* the click listener of card i, for a click inside its .favourite-button,
\* when the write fails
CardButtonClickThrowing(i) ==
    /\ pc = "ready"
    /\ i \in 1..Len(cards)
    /\ ToggleFavouriteThrowing(cards[i].stopId, cards[i].stopName)
    /\ lastEvent' = Event("cardToggleThrown", cards[i].stopId, cards[i].stopName)
    /\ prev' = [favourites |-> favourites, storage |-> storage]

\* the click listener of the heading's button i, when the write fails
HeaderButtonClickThrowing(i) ==
    /\ pc = "ready"
    /\ i \in 1..Len(headerButtons)
    /\ ToggleFavouriteThrowing(headerButtons[i].stopId, headerButtons[i].stopName)
    /\ lastEvent' = Event("headerToggleThrown", headerButtons[i].stopId,
                          headerButtons[i].stopName)
    /\ prev' = [favourites |-> favourites, storage |-> storage]

\* the full page about to construct its manager, stop names not empty
InitQuota ==
    /\ Init
    /\ page = FullPage
    /\ storage \in {NullItem, JSONStringify([k \in {"5"} |-> "King St"])}
    /\ sectionVisible
    /\ heading = "Upcoming Buses at King St"

\* each write either succeeds or throws
NextQuota ==
    \/ NewFavouritesManager
    \/ \E i \in 1..Len(cards) : CardButtonClick(i)
    \/ \E i \in 1..Len(cards) : CardButtonClickThrowing(i)
    \/ \E i \in 1..Len(cards) : CardActivate(i)
    \/ \E i \in 1..Len(headerButtons) : HeaderButtonClick(i)
    \/ \E i \in 1..Len(headerButtons) : HeaderButtonClickThrowing(i)
    \/ \E answered \in BOOLEAN : HtmxAfterSwap("bus-times", TRUE, heading, answered)

QuotaSpec == InitQuota /\ [][NextQuota]_vars

\* C20: a toggleFavourite whose write to persistent storage fails leaves the
\* in-memory set, the rendered cards and the toggle controls' active markings
\* in agreement: one card per in-memory entry, and a control active iff its
\* stop is in the in-memory set.
C20_FailedWriteKeepsAgreement ==
    lastEvent.op \in {"cardToggleThrown", "headerToggleThrown"} =>
        /\ Len(cards) = Len(ObjectKeys(favourites))
        /\ \A i \in 1..Len(cards) : cards[i].stopId = ObjectKeys(favourites)[i]
        /\ \A i \in 1..Len(cards) :
              cards[i].button.active = (cards[i].button.dataStopId \in DOMAIN favourites)
        /\ \A i \in 1..Len(headerButtons) :
              headerButtons[i].button.active =
                  (headerButtons[i].button.dataStopId \in DOMAIN favourites)

(***************************************************************************)
(* Bus-times fragments of a server that answers each refresh with the      *)
(* heading of the stop the request named.  The server is not part of the   *)
(* repository's files; what is taken from it is that a stop has one name   *)
(* and that its fragment's heading reads 'Upcoming Buses at <name>'.       *)
(***************************************************************************)
\* the name of a stop in the transit data
StopNameOf(stopId) ==
    CASE stopId = "5" -> "King St"
      [] stopId = "5&6" -> "Main St <NB>"
      [] OTHER -> ""

\* the heading of the fragment served for a stop id; none for no stop
HeadingOfStop(stopId) ==
    CASE stopId = "5" -> "Upcoming Buses at King St"
      [] stopId = "5&6" -> "Upcoming Buses at Main St <NB>"
      [] OTHER -> NoHeading

\* the response to the oldest pending refresh is swapped into #bus-times
FragmentArrives ==
    /\ pending # <<>>
    /\ HtmxAfterSwap("bus-times", TRUE, HeadingOfStop(Head(pending)), TRUE)

\* the full page about to construct its manager, nothing stored, no fragment
\* shown yet
InitFragment ==
    /\ Init
    /\ page = FullPage
    /\ storage = NullItem
    /\ ~sectionVisible
    /\ heading = NoHeading

NextFragment ==
    \/ NewFavouritesManager
    \/ FragmentArrives
    \/ \E i \in 1..Len(headerButtons) : HeaderButtonClick(i)
    \/ \E i \in 1..Len(cards) : CardButtonClick(i)
    \/ \E i \in 1..Len(cards) : CardActivate(i)
    \/ \E stopId \in StopIds : SelectComplete(stopId)
    \/ FormSubmit
    \/ \E target \in 0..Len(history) : PopState(target)

FragmentSpec == InitFragment /\ [][NextFragment]_vars

\* C21: the header toggle control is bound to the id and the name of the same
\* stop, and no favourite entry maps one stop's id to another stop's name,
\* however navigation interleaves with the arrival of fragments requested
\* earlier.
C21_HeaderBoundToOneStop ==
    /\ \A i \in 1..Len(headerButtons) :
          headerButtons[i].stopName = StopNameOf(headerButtons[i].stopId)
    /\ \A k \in DOMAIN favourites : favourites[k] = StopNameOf(k)

(***************************************************************************)
(* The service worker's events.  The browser dispatches install once, then *)
(* activate when the promise given to install's waitUntil has resolved,    *)
(* then fetch events once activate's promise has resolved; a rejected      *)
(* install makes the worker redundant.                                     *)
(***************************************************************************)
\* the install listener; networkOk: every URL of urlsToCache could be
\* fetched, so that cache.addAll resolves (it adds nothing when it rejects)
Install(networkOk) ==
    /\ swState = "parsed"
    /\ caches' = IF networkOk
                 THEN CacheAddAll(CachesOpen(caches, CACHE_NAME), CACHE_NAME, urlsToCache)
                 ELSE CachesOpen(caches, CACHE_NAME)
    /\ swState' = IF networkOk THEN "installed" ELSE "redundant"
    /\ lastEvent' = Event("install", NoStop, "")
    /\ prev' = [favourites |-> favourites, storage |-> storage]
    /\ UNCHANGED <<pc, page, favourites, storage, cards, sectionVisible, heading,
                   headerButtons, url, history, stopIdInput, pending, loaded, urlTheme,
                   prefersDark, theme, themeItem, icon, listeners, landing, position,
                   timers, errorText, other, fetchedOk, lastFetch>>

\* the activate listener
Activate ==
    /\ swState = "installed"
    /\ caches' = CachesDeleteUnlisted(caches, cacheWhitelist)
    /\ swState' = "activated"
    /\ lastEvent' = Event("activate", NoStop, "")
    /\ prev' = [favourites |-> favourites, storage |-> storage]
    /\ UNCHANGED <<pc, page, favourites, storage, cards, sectionVisible, heading,
                   headerButtons, url, history, stopIdInput, pending, loaded, urlTheme,
                   prefersDark, theme, themeItem, icon, listeners, landing, position,
                   timers, errorText, other, fetchedOk, lastFetch>>

\* the fetch listener: fetch(event.request).catch(() => caches.match(event.request));
\* networkOk: fetch resolves.  caches.match resolves to undefined when no
\* cache holds the request, and respondWith then fails the request.
Fetch(request, networkOk) ==
    /\ swState = "activated"
    /\ lastFetch' = [request |-> request, networkOk |-> networkOk,
                     answer |-> IF networkOk THEN "network"
                                ELSE IF CachesMatch(caches, request) THEN "cache"
                                ELSE "none"]
    /\ fetchedOk' = IF networkOk THEN fetchedOk \cup {request} ELSE fetchedOk
    /\ lastEvent' = Event("fetch", NoStop, "")
    /\ prev' = [favourites |-> favourites, storage |-> storage]
    /\ UNCHANGED <<pc, page, favourites, storage, cards, sectionVisible, heading,
                   headerButtons, url, history, stopIdInput, pending, loaded, urlTheme,
                   prefersDark, theme, themeItem, icon, listeners, landing, position,
                   timers, errorText, other, swState, caches>>

\* the requests of the page: two of the listed URLs, the autocomplete query
\* of next-bus.js, and a stylesheet of an earlier release
Requests == {"/", "/static/styles.css", "/autocomplete?q=k", "/static/old.css"}

\* what the origin's CacheStorage holds before install: nothing, the cache of
\* an earlier worker, or that and a cache of the current name left by an
\* earlier release
OldCaches ==
    {NoCaches,
     [n \in {"next-bus-time-cache-v0"} |-> {"/"}],
     [n \in {"next-bus-time-cache-v0", "next-bus-time-cache-v1"} |->
         IF n = "next-bus-time-cache-v0" THEN {"/"} ELSE {"/static/old.css"}]}

\* the worker's script evaluated; the page as it is on the full page opened
\* without a stop
InitWorker ==
    /\ InitDocument
    /\ page = FullPage
    /\ storage = NullItem
    /\ sectionVisible
    /\ heading = NoHeading
    /\ url = NoSearch
    /\ swState = "parsed"
    /\ caches \in OldCaches
    /\ fetchedOk = {}
    /\ lastFetch = NoFetch

NextWorker ==
    \/ \E networkOk \in BOOLEAN : Install(networkOk)
    \/ Activate
    \/ \E request \in Requests, networkOk \in BOOLEAN : Fetch(request, networkOk)

WorkerSpec == InitWorker /\ [][NextWorker]_vars

\* C22: the worker answers a request with the network response when the
\* network fetch succeeds and with the cache match only when it fails; and
\* handling a fetch caches the request, so that a request once fetched
\* successfully is answered from the cache when the network later fails.
C22_NetworkFirstThenCached ==
    lastFetch.request # "" =>
        /\ lastFetch.networkOk => lastFetch.answer = "network"
        /\ ~lastFetch.networkOk =>
              lastFetch.answer = IF CachesMatch(caches, lastFetch.request)
                                 THEN "cache" ELSE "none"
        /\ ~lastFetch.networkOk /\ lastFetch.request \in fetchedOk =>
              lastFetch.answer = "cache"

\* C23: when activate has completed, every cache whose name is not
\* 'next-bus-time-cache-v1' is deleted, and the cache of that name is kept,
\* holding all listed URLs since install.
C23_ActivateKeepsOnlyCurrentCache ==
    /\ swState \in {"installed", "activated"} =>
          /\ CACHE_NAME \in DOMAIN caches
          /\ UrlsOf(urlsToCache) \subseteq caches[CACHE_NAME]
    /\ swState = "activated" => DOMAIN caches = {"next-bus-time-cache-v1"}

\* activate has completed on an origin that held the cache of an earlier
\* worker and a cache of the current name (only then is /static/old.css
\* cached): the former is gone, the latter kept with what it held
C23_Witness ==
    /\ swState = "activated"
    /\ lastEvent.op = "activate"
    /\ DOMAIN caches = {"next-bus-time-cache-v1"}
    /\ "/static/old.css" \in caches[CACHE_NAME]
    /\ UrlsOf(urlsToCache) \subseteq caches[CACHE_NAME]

(***************************************************************************)
(* The theme at page load, for every URL theme, stored theme and system    *)
(* preference.                                                             *)
(***************************************************************************)
AllThemeSettings ==
    {<<u, i, d>> : u \in Themes \cup {NoTheme, EmptyTheme},
                   i \in Themes \cup {NoTheme, EmptyTheme}, d \in BOOLEAN}

InitTheme ==
    InitScript({FullPage, [FullPage EXCEPT !.themeToggle = FALSE]}, {NullItem},
               {NoSearch}, AllThemeSettings)

NextTheme ==
    \/ DOMContentLoaded
    \/ NewFavouritesManager
    \/ ThemeToggleClick

ThemeSpec == InitTheme /\ [][NextTheme]_vars

\* C24, as stated: at page load the theme shown is the URL's theme parameter
\* if present, else the stored theme, else the system preference; the stored
\* theme is written at load only when the URL gave no theme.
C24_ThemeAtLoad ==
    [][lastEvent'.op = "load" =>
          /\ theme' = IF urlTheme # NoTheme THEN urlTheme
                      ELSE IF themeItem # NoTheme THEN themeItem
                      ELSE IF prefersDark THEN "dark" ELSE "light"
          /\ urlTheme # NoTheme => themeItem' = themeItem]_vars

\* C24, amended: present means present and not empty, for the URL's theme
\* and for the stored one.
C24_NonEmptyThemeAtLoad ==
    [][lastEvent'.op = "load" =>
          /\ theme' = IF urlTheme \notin {NoTheme, EmptyTheme} THEN urlTheme
                      ELSE IF themeItem \notin {NoTheme, EmptyTheme} THEN themeItem
                      ELSE IF prefersDark THEN "dark" ELSE "light"
          /\ urlTheme \notin {NoTheme, EmptyTheme} => themeItem' = themeItem
          /\ urlTheme \in {NoTheme, EmptyTheme} => themeItem' = theme']_vars

\* both listeners have run for a URL naming 'dark' over a stored 'light': dark
\* is shown and 'light' is still stored
C24_Witness ==
    /\ loaded = 2
    /\ urlTheme = "dark"
    /\ theme = "dark"
    /\ themeItem = "light"

(***************************************************************************)
(* The other handlers of the page.                                         *)
(***************************************************************************)
\* the handlers that call toggleFavourite
ToggleOps == {"cardToggle", "headerToggle"}
\* the handlers C11 names as leaving the set alone
OtherOps ==
    {"activate", "afterSwap", "afterSwapKept", "afterSwapOther", "submit", "popstate",
     "themeClick", "responseError", "timerClear", "timerRetry", "selectcomplete", "load"}

\* C11: the favourites set and its persisted copy change only in
\* toggleFavourite (and the set when the constructor loads it): card
\* activation, button binding after a swap, form submit, popstate, the theme
\* toggle and the error-retry handler and its timers leave this.favourites and
\* the 'busStopFavourites' item as they were.
C11_OnlyToggleChangesFavourites ==
    [][/\ lastEvent'.op \in OtherOps => UNCHANGED <<favourites, storage>>
       /\ storage' # storage => lastEvent'.op \in ToggleOps
       /\ favourites' # favourites => lastEvent'.op \in ToggleOps \cup {"construct"}]_vars

\* a popstate has been handled while a stop is a favourite and stored
C11_Witness ==
    /\ lastEvent.op = "popstate"
    /\ lastEvent.stopId # NoStop
    /\ favourites # EmptyObject
    /\ storage = SaveFavourites(favourites)

\* C14: when the constructor throws on a malformed stored value, only the
\* favourites are inactive: the theme, stop search, submit, popstate and
\* error-retry handlers the element guards allow are installed, and each does
\* its work when its event comes.
C14_HandlersSurviveFailure ==
    pc = "failed" =>
        /\ favourites = EmptyObject /\ cards = <<>> /\ headerButtons = <<>>
        /\ listeners = Registered(Registered(NoListeners, page), page)
        /\ page.themeToggle => listeners.click > 0
        /\ page.stopNameInput /\ page.stopIdInput =>
              listeners.submit > 0 /\ listeners.selectcomplete > 0 /\ listeners.popstate = 1
        /\ listeners.responseError > 0
        /\ lastEvent.op = "themeClick" /\ listeners.click > 0 =>
              themeItem = theme /\ icon = UpdateThemeIcon(theme)
        /\ lastEvent.op = "selectcomplete" => stopIdInput = lastEvent.stopId
        /\ lastEvent.op = "submit" /\ lastEvent.stopId # NoStop /\ listeners.submit > 0 =>
              url = SearchOfTemplate(lastEvent.stopId) /\ history[position] = url
        /\ lastEvent.op = "popstate" /\ lastEvent.stopId # NoStop /\ listeners.popstate = 1 =>
              stopIdInput = lastEvent.stopId
        /\ lastEvent.op = "responseError" => \E i \in 1..Len(timers) : timers[i] = "retry"

\* on the full page, after the constructor threw, Back has been handled
C14_Witness ==
    /\ pc = "failed"
    /\ page = FullPage
    /\ lastEvent.op = "popstate"
    /\ lastEvent.stopId # NoStop
    /\ stopIdInput = lastEvent.stopId

\* C15: one click on the theme toggle changes the page theme to the other of
\* light and dark, and afterwards the stored theme equals the theme shown:
\* the net effect of all click listeners registered on the toggle.
C15_ClickFlipsTheme ==
    [][lastEvent'.op = "themeClick" /\ listeners.click > 0 =>
          /\ theme' = ThemeClicked(theme)
          /\ theme' # theme
          /\ themeItem' = theme'
          /\ icon' = UpdateThemeIcon(theme')]_vars

\* C16: a submit of the stop form with a non-empty stop id pushes exactly one
\* history entry, whose URL carries stop_id equal to the stop id input, so
\* that one Back returns to the entry that was current before; a submit with
\* an empty stop id pushes none.
C16_SubmitPushesOneEntry ==
    [][lastEvent'.op = "submit" /\ listeners.submit > 0 =>
          IF stopIdInput = NoStop
          THEN history' = history /\ position' = position /\ url' = url
          ELSE /\ position' = position + 1
               /\ Len(history') = position'
               /\ url' = history'[position']
               /\ SearchParamsGetStopId(url') = stopIdInput]_vars

\* the step has triggered one 'refresh' for stopId
RefreshRequested(stopId) == pending' = Append(pending, stopId)

\* C17: on a page with all its elements, when a page load, a popstate or a
\* card activation completes with a stop_id in the URL, the stop id input
\* equals the URL's stop_id and a refresh of the bus-times view has been
\* requested; a popstate to a URL without stop_id changes neither the input
\* nor the view.
C17_InputFollowsUrl ==
    [][page = FullPage /\ lastEvent'.op \in {"load", "popstate", "activate"} =>
          LET stopId == SearchParamsGetStopId(url')
          IN  IF stopId # NoStop
              THEN stopIdInput' = stopId /\ RefreshRequested(stopIdInput')
              ELSE UNCHANGED <<stopIdInput, pending, heading, headerButtons>>]_vars

\* how many of the scheduled timers are retries
RECURSIVE Retries(_)
Retries(ts) ==
    IF ts = <<>> THEN 0 ELSE (IF Head(ts) = "retry" THEN 1 ELSE 0) + Retries(Tail(ts))

\* C18: an HTMX response error schedules exactly one retry refresh and one
\* clearing of the error message, so that under repeated failure the retries
\* scheduled per failed request stay one and the pending retries do not grow.
C18_OneRetryPerError ==
    [][lastEvent'.op = "responseError" =>
          /\ Retries(timers') = Retries(timers) + 1
          /\ page.errorMessage => Len(timers') = Len(timers) + 2]_vars

\* C19: whenever a toggle control exists in the bus-times header, its title is
\* 'Remove from favourites' if its stop is in the favourites set and 'Add to
\* favourites' otherwise, after binding and after any later toggle.
C19_HeaderTitleMatchesSet ==
    \A i \in 1..Len(headerButtons) :
        headerButtons[i].button.title =
            IF headerButtons[i].button.dataStopId \in DOMAIN favourites
            THEN "Remove from favourites"
            ELSE "Add to favourites"

=============================================================================
